---- MODULE Spec2Model ----
(***************************************************************************)
(* A model of the tableau4go REST client (client.go): the session value    *)
(* (API), the request dispatcher makeRequest and the public operations     *)
(* built on it.  Every operation is one action: it builds its request,     *)
(* runs makeRequest against one outcome of the network (the record env)    *)
(* and leaves its results in the variable call.                            *)
(*                                                                         *)
(* Strings are TLA+ strings; a URL or a payload is the sequence of the     *)
(* pieces fmt.Sprintf and += put together, so its length is zero exactly   *)
(* when the Go value is empty.                                             *)
(***************************************************************************)
EXTENDS Integers, Sequences, FiniteSets, TLC

VARIABLES api, call, granted, grantedBefore

vars == <<api, call, granted, grantedBefore>>

\* Longest project list a response body carries.
MaxProjects == 2

content_type_header == "Content-Type"
content_length_header == "Content-Length"
auth_header == "X-Tableau-Auth"
application_xml_content_type == "application/xml"
POST == "POST"
GET == "GET"
DELETE == "DELETE"

StatusNotFound == 404
StatusErrorFloor == 300

\* ---------------------------------------------------------------- errors
Err(kind, detail) == [kind |-> kind, detail |-> detail]

NoErr == Err("nil", << >>)

ErrDoesNotExist == Err("ErrDoesNotExist", <<"Does Not Exist">>)

\* ------------------------------------------------------- input alphabets
\* "%zz" is an invalid URL escape: http.NewRequest rejects a URL holding it.
\* " " is white space, which strings.TrimSpace removes at either end.
BadEscape == "%zz"
Space == " "

IDs == {"s1", BadEscape}
TrimIDs == {"s1", BadEscape, Space}
Tokens == {"t1", "t2"}
SiteNames == {"", "Default", "mkt"}
DefaultNames == {"Default"}
ProjectIDs == {"p1", "p2"}
ProjectNames == {"Finance", "Ops"}
ErrCodes == {"401001"}
Statuses == {200, 300, 404, 500}

Project(id, name) == [ID |-> id, Name |-> name]
ZeroProject == Project("", "")
ProjectSet == {Project(i, n) : i \in ProjectIDs, n \in ProjectNames}

SeqsUpTo(S, n) == UNION {[1..k -> S] : k \in 0..n}

\* ------------------------------------------------------ response bodies
\* A body is empty, not XML at all ("malformed"), a well-formed document
\* of some schema ("result"; the server's error document has the schema
\* ErrorResponse), or such a document cut off after its content
\* ("truncated": the decoder fills the fields and then reports the error).
Body(k, schema, val) == [k |-> k, schema |-> schema, val |-> val]
EmptyBody == Body("empty", "", << >>)
MalformedBody == Body("malformed", "", << >>)

Zero(T) ==
    CASE T = "AuthResponse" -> [Credentials |-> [Token |-> ""]]
      [] T = "QueryProjectsResponse" -> [Projects |-> [Projects |-> << >>]]
      [] T = "CreateProjectResponse" -> [Project |-> ZeroProject]
      [] T = "QuerySiteResponse" -> [Site |-> [ID |-> ""]]
      [] T = "ServerInfoResponse" -> [ServerInfo |-> ""]
      [] T = "QueryUserOnSiteResponse" -> [User |-> ""]
      [] T = "Datasource" -> [ID |-> "", Name |-> ""]
      [] T = "ErrorResponse" -> [Error |-> [Code |-> ""]]
      [] T = "csv.Reader" -> [reader |-> EmptyBody]
      [] OTHER -> [List |-> << >>]

ValuesOf(T) ==
    CASE T = "AuthResponse" -> {[Credentials |-> [Token |-> t]] : t \in Tokens \cup {""}}
      [] T = "QueryProjectsResponse" ->
            {[Projects |-> [Projects |-> l]] : l \in SeqsUpTo(ProjectSet, MaxProjects)}
      [] T = "CreateProjectResponse" -> {[Project |-> p] : p \in ProjectSet}
      [] T = "QuerySiteResponse" -> {[Site |-> [ID |-> i]] : i \in {"s1", "s2"}}
      [] T = "ServerInfoResponse" -> {[ServerInfo |-> "2.4"]}
      [] T = "QueryUserOnSiteResponse" -> {[User |-> "u1"]}
      [] T = "Datasource" -> {[ID |-> "d1", Name |-> "Sales"]}
      [] T = "ErrorResponse" -> {[Error |-> [Code |-> c]] : c \in ErrCodes}
      [] OTHER -> {[List |-> << >>], [List |-> <<"e1">>]}

\* One document of schema T with every field set.
Sample(T) ==
    CASE T = "AuthResponse" -> [Credentials |-> [Token |-> "t2"]]
      [] T = "QueryProjectsResponse" -> [Projects |-> [Projects |-> <<Project("p1", "Finance")>>]]
      [] T = "CreateProjectResponse" -> [Project |-> Project("p1", "Finance")]
      [] T = "QuerySiteResponse" -> [Site |-> [ID |-> "s1"]]
      [] T = "ServerInfoResponse" -> [ServerInfo |-> "2.4"]
      [] T = "QueryUserOnSiteResponse" -> [User |-> "u1"]
      [] T = "Datasource" -> [ID |-> "d1", Name |-> "Sales"]
      [] OTHER -> [List |-> <<"e1">>]

\* Bodies any response may carry, whatever its status: no body, a body
\* that is not XML, the server's error document, a result document and a
\* result document cut off after its content.
GenericBodies(T) ==
    {EmptyBody, MalformedBody, Body("result", T, Sample(T)), Body("truncated", T, Sample(T))}
        \cup {Body("result", "ErrorResponse", v) : v \in ValuesOf("ErrorResponse")}

\* Bodies of a response of status 200: also every result document of T.
BodiesFor(T) == GenericBodies(T) \cup {Body("result", T, v) : v \in ValuesOf(T)}

\* --------------------------------------------------- network outcomes
\* What client.Do and ioutil.ReadAll give for one request: the transport
\* fails (a timeout of the connect or read/write phase, a refused
\* connection), or a response arrives and reading its body fails (the
\* read/write deadline passes during the transfer), or status and body are
\* both there.
Outcome(transport, readBody, status, body) ==
    [transport |-> transport, readBody |-> readBody, status |-> status, body |-> body]

Envs(T) ==
    {Outcome(t, "none", 0, EmptyBody) : t \in {"connectTimeout", "rwTimeout", "refused"}}
        \cup {Outcome("ok", "rwTimeout", s, EmptyBody) : s \in Statuses}
        \cup {Outcome("ok", "ok", s, b) : s \in Statuses, b \in GenericBodies(T)}
        \cup {Outcome("ok", "ok", 200, b) : b \in BodiesFor(T)}

\* ------------------------------------------------------ decode targets
\* The result parameter of makeRequest is an interface value: nil, or a
\* pointer to a value of type T, and that pointer may itself be nil.
NilResult == [iface |-> "nil", isnil |-> TRUE, type |-> "", val |-> << >>]
Ptr(T, v) == [iface |-> "ptr", isnil |-> FALSE, type |-> T, val |-> v]
NilPtr(T) == [iface |-> "ptr", isnil |-> TRUE, type |-> T, val |-> << >>]

\* xml.Unmarshal(body, &v) for an addressable v of type T holding cur:
\* elements the type does not declare are skipped without error.
xmlUnmarshal(body, T, cur) ==
    CASE body.k = "empty" -> [err |-> Err("EOF", << >>), val |-> cur]
      [] body.k = "malformed" -> [err |-> Err("xml.SyntaxError", << >>), val |-> cur]
      [] body.k = "truncated" ->
            [err |-> Err("xml.SyntaxError", << >>),
             val |-> IF body.schema = T THEN body.val ELSE cur]
      [] OTHER -> [err |-> NoErr, val |-> IF body.schema = T THEN body.val ELSE cur]

\* xml.Unmarshal(body, &result) with result the interface value: a non-nil
\* pointer is decoded into; a nil pointer inside the interface makes the
\* decoder skip the element (it reports only a document it cannot read).
decodeResult(body, result) ==
    IF result.isnil
    THEN [err |-> xmlUnmarshal(body, result.type, << >>).err, out |-> result]
    ELSE LET d == xmlUnmarshal(body, result.type, result.val)
         IN [err |-> d.err, out |-> Ptr(result.type, d.val)]

\* ---------------------------------------------------------- requests
RECURSIVE TrimLeft(_)
TrimLeft(s) == IF Len(s) > 0 /\ Head(s) = Space THEN TrimLeft(Tail(s)) ELSE s

RECURSIVE TrimRight(_)
TrimRight(s) ==
    IF Len(s) > 0 /\ s[Len(s)] = Space THEN TrimRight(SubSeq(s, 1, Len(s) - 1)) ELSE s

TrimSpace(s) == TrimRight(TrimLeft(s))

\* http.NewRequest fails when the URL does not parse.
NewRequestOK(url) == \A i \in DOMAIN url : url[i] # BadEscape

AddHeader(h, k, v) ==
    [x \in DOMAIN h \cup {k} |->
        IF x = k THEN (IF k \in DOMAIN h THEN Append(h[k], v) ELSE <<v>>) ELSE h[x]]

AddHeaders(h, m) ==
    [x \in DOMAIN h \cup DOMAIN m |->
        IF x \in DOMAIN m
        THEN (IF x \in DOMAIN h THEN Append(h[x], m[x]) ELSE <<m[x]>>)
        ELSE h[x]]

NoHeaders == [x \in {} |-> << >>]

ContentTypeXML == [x \in {content_type_header} |-> application_xml_content_type]

\* What one call of makeRequest did: the error it returned, the requests
\* it handed to client.Do, whether it got as far as the status checks, as
\* parsing the body as an error document, as the decode step, and the
\* decode target as the call found it and as the call left it.
Done(err, reqs, statusChecked, errorParsed, decodeReached, target, out) ==
    [err |-> err, reqs |-> reqs, statusChecked |-> statusChecked,
     errorParsed |-> errorParsed, decodeReached |-> decodeReached,
     target |-> target, out |-> out]

\* The dispatcher as it would be if it never attached the auth header.
authHeaderNever(a, h) == h

\* The session token goes into the auth header when there is one.
authHeader(a, h) == IF a.AuthToken # "" THEN AddHeader(h, auth_header, a.AuthToken) ELSE h

\* The check as it would be if only a refused connection counted.
transportFailedOnRefusal(env) == env.transport = "refused"

\* client.Do returned an error.
transportFailed(env) == env.transport # "ok"

\* ioutil.ReadAll returned an error.
readBodyFailed(env) == env.readBody # "ok"

\* The status checks as they would be without the 404 case, and with a
\* strict comparison against 300.
isNotFoundNever(status) == FALSE

isNotFound(status) == status = StatusNotFound

isErrorStatusAbove(status) == status > StatusErrorFloor

isErrorStatus(status) == status >= StatusErrorFloor

makeRequest(a, requestURL, method, payload, result, headers, cTimeout, rwTimeout, format, env) ==
    LET url == TrimSpace(requestURL)
        h1 == IF Len(payload) > 0
              THEN AddHeader(NoHeaders, content_length_header, Len(payload))
              ELSE NoHeaders
        h2 == AddHeaders(h1, headers)
        h3 == authHeader(a, h2)
        req == [method |-> TrimSpace(<<method>>)[1], url |-> url, body |-> payload, header |-> h3,
                cTimeout |-> cTimeout, rwTimeout |-> rwTimeout]
    IN  IF ~NewRequestOK(url)
        THEN Done(Err("url.Error", << >>), << >>, FALSE, FALSE, FALSE, result, result)
        ELSE IF transportFailed(env)
        THEN Done(Err("transport", <<env.transport>>), <<req>>, FALSE, FALSE, FALSE, result, result)
        ELSE IF readBodyFailed(env)
        THEN Done(Err("readBody", <<env.readBody>>), <<req>>, FALSE, FALSE, FALSE, result, result)
        ELSE IF isNotFound(env.status)
        THEN Done(ErrDoesNotExist, <<req>>, TRUE, FALSE, FALSE, result, result)
        ELSE IF isErrorStatus(env.status)
        THEN LET e == xmlUnmarshal(env.body, "ErrorResponse", Zero("ErrorResponse"))
             IN  IF e.err # NoErr
                 THEN Done(e.err, <<req>>, TRUE, TRUE, FALSE, result, result)
                 ELSE Done(Err("TError", <<e.val.Error.Code>>), <<req>>, TRUE, TRUE, FALSE,
                           result, result)
        ELSE IF result.iface # "nil"
        THEN IF format = "csv"
             THEN Done(NoErr, <<req>>, TRUE, FALSE, TRUE, result,
                       Ptr(result.type, [reader |-> env.body]))
             ELSE LET d == decodeResult(env.body, result)
                  IN  Done(d.err, <<req>>, TRUE, FALSE, TRUE, result, d.out)
        ELSE Done(NoErr, <<req>>, TRUE, FALSE, FALSE, result, result)

\* ------------------------------------------------------- operations
\* What an operation gave back: the session token it leaves, its return
\* values other than the error, the error, the makeRequest calls it made
\* and the locals a property needs to see.
R(token, ret, err, mks, locals) ==
    [token |-> token, ret |-> ret, err |-> err, mks |-> mks, locals |-> locals]

NoLocals == [none |-> TRUE]

BoolStr(b) == IF b THEN "true" ELSE "false"

\* The XML() method of a request type: the marshalled document, or the
\* marshaller's error.
XML(request, fails) ==
    IF fails
    THEN [err |-> Err("xml.Marshal", << >>), bytes |-> << >>]
    ELSE [err |-> NoErr, bytes |-> <<"<tsRequest>", request, "</tsRequest>">>]

\* The site selector as it would be if the flag were not consulted.
siteNameForAnyFlag(a, contentURL) ==
    IF contentURL = a.DefaultSiteName THEN "" ELSE contentURL

siteNameFor(a, contentURL) ==
    IF a.OmitDefaultSiteName
    THEN (IF contentURL = a.DefaultSiteName THEN "" ELSE contentURL)
    ELSE contentURL

\* The token as it would be if Signin stored it without looking at err.
tokenAfterSigninAlways(a, err, retval) == retval.Credentials.Token

\* The token the session holds when Signin returns.
tokenAfterSignin(a, err, retval) ==
    IF err = NoErr THEN retval.Credentials.Token ELSE a.AuthToken

Signin(a, username, password, contentURL, userIDToImpersonate, xmlFails, env) ==
    LET url == <<a.Server, "/api/", a.Version, "/auth/signin">>
        siteName == siteNameFor(a, contentURL)
        credentials ==
            [Name |-> username, Password |-> password,
             Impersonate |-> IF userIDToImpersonate # ""
                             THEN <<[ID |-> userIDToImpersonate]>> ELSE << >>,
             Site |-> <<[ContentUrl |-> siteName]>>]
        request == [Request |-> credentials]
        x == XML(request, xmlFails)
        locals == [credentials |-> credentials]
    IN  IF x.err # NoErr
        THEN R(a.AuthToken, << >>, x.err, << >>, locals)
        ELSE LET payload == x.bytes
                 retval == Zero("AuthResponse")
                 mk == makeRequest(a, url, POST, payload, Ptr("AuthResponse", retval),
                                   ContentTypeXML, "connectTimeOut", "readWriteTimeout", "", env)
             IN  R(tokenAfterSignin(a, mk.err, mk.out.val), << >>, mk.err, <<mk>>, locals)

\* Signout as it would be if it zeroed the token after a successful call.
SignoutClearing(a, env) ==
    LET url == <<a.Server, "/api/", a.Version, "/auth/signout">>
        mk == makeRequest(a, url, POST, << >>, NilResult, ContentTypeXML,
                          "connectTimeOut", "readWriteTimeout", "", env)
    IN  R(IF mk.err = NoErr THEN "" ELSE a.AuthToken, << >>, mk.err, <<mk>>, NoLocals)

Signout(a, env) ==
    LET url == <<a.Server, "/api/", a.Version, "/auth/signout">>
        mk == makeRequest(a, url, POST, << >>, NilResult, ContentTypeXML,
                          "connectTimeOut", "readWriteTimeout", "", env)
    IN  R(a.AuthToken, << >>, mk.err, <<mk>>, NoLocals)

ServerInfo(a, env) ==
    LET url == <<a.Server, "/api/", "2.4", "/serverinfo">>
        mk == makeRequest(a, url, GET, << >>, Ptr("ServerInfoResponse", Zero("ServerInfoResponse")),
                          NoHeaders, "connectTimeOut", "readWriteTimeout", "", env)
    IN  R(a.AuthToken, <<mk.out.val.ServerInfo>>, mk.err, <<mk>>, NoLocals)

QuerySites(a, env) ==
    LET url == <<a.Server, "/api/", a.Version, "/sites/">>
        mk == makeRequest(a, url, GET, << >>, Ptr("QuerySitesResponse", Zero("QuerySitesResponse")),
                          NoHeaders, "connectTimeOut", "readWriteTimeout", "", env)
    IN  R(a.AuthToken, <<mk.out.val.List>>, mk.err, <<mk>>, NoLocals)

querySite(a, url, env) ==
    LET mk == makeRequest(a, url, GET, << >>, Ptr("QuerySiteResponse", Zero("QuerySiteResponse")),
                          NoHeaders, "connectTimeOut", "readWriteTimeout", "", env)
    IN  R(a.AuthToken, <<mk.out.val.Site>>, mk.err, <<mk>>, NoLocals)

QuerySite(a, siteID, includeStorage, env) ==
    LET url0 == <<a.Server, "/api/", a.Version, "/sites/", siteID>>
        url == IF includeStorage
               THEN url0 \o <<"?includeStorage=", BoolStr(includeStorage)>> ELSE url0
    IN  querySite(a, url, env)

querySiteByKey(a, key, value, includeStorage, env) ==
    LET url0 == <<a.Server, "/api/", a.Version, "/sites/", value, "?key=", key>>
        url == IF includeStorage
               THEN url0 \o <<"&includeStorage=", BoolStr(includeStorage)>> ELSE url0
    IN  querySite(a, url, env)

QuerySiteByName(a, name, includeStorage, env) ==
    querySiteByKey(a, "name", name, includeStorage, env)

QuerySiteByContentURL(a, contentURL, includeStorage, env) ==
    querySiteByKey(a, "contentURL", contentURL, includeStorage, env)

QueryUserOnSite(a, siteID, userID, env) ==
    LET url == <<a.Server, "/api/", a.Version, "/sites/", siteID, "/users/", userID>>
        mk == makeRequest(a, url, GET, << >>,
                          Ptr("QueryUserOnSiteResponse", Zero("QueryUserOnSiteResponse")),
                          NoHeaders, "connectTimeOut", "readWriteTimeout", "", env)
    IN  R(a.AuthToken, <<mk.out.val.User>>, mk.err, <<mk>>, NoLocals)

QueryProjects(a, siteID, env) ==
    LET url == <<a.Server, "/api/", a.Version, "/sites/", siteID, "/projects">>
        mk == makeRequest(a, url, GET, << >>,
                          Ptr("QueryProjectsResponse", Zero("QueryProjectsResponse")),
                          NoHeaders, "connectTimeOut", "readWriteTimeout", "", env)
    IN  R(a.AuthToken, <<mk.out.val.Projects.Projects>>, mk.err, <<mk>>, NoLocals)

QueryViews(a, siteID, env) ==
    LET url == <<a.Server, "/api/", a.Version, "/sites/", siteID, "/views">>
        mk == makeRequest(a, url, GET, << >>, Ptr("QueryViewsResponse", Zero("QueryViewsResponse")),
                          NoHeaders, "connectTimeOut", "readWriteTimeout", "", env)
    IN  R(a.AuthToken, <<mk.out.val.List>>, mk.err, <<mk>>, NoLocals)

\* url.Values.Encode(): "k=v" for each pair, joined by "&"; keys and values
\* here are plain words, which escaping leaves as they are.
RECURSIVE Encode(_)
Encode(values) ==
    IF Len(values) = 0 THEN << >>
    ELSE <<values[1].k, "=", values[1].v>>
            \o (IF Len(values) > 1 THEN <<"&">> ELSE << >>) \o Encode(Tail(values))

QueryWorkbookViews(a, siteID, workbookID, values, env) ==
    LET params0 == Encode(values)
        params == IF Len(params0) # 0 THEN <<"?">> \o params0 ELSE params0
        url == <<a.Server, "/api/", a.Version, "/sites/", siteID, "/workbooks/", workbookID,
                 "/views">> \o params
        mk == makeRequest(a, url, GET, << >>, Ptr("QueryViewsResponse", Zero("QueryViewsResponse")),
                          NoHeaders, "connectTimeOut", "readWriteTimeout", "", env)
    IN  R(a.AuthToken, <<mk.out.val.List>>, mk.err, <<mk>>, NoLocals)

QueryViewData(a, siteID, viewID, env) ==
    LET url == <<a.Server, "/api/", a.Version, "/sites/", siteID, "/views/", viewID, "/data">>
        mk == makeRequest(a, url, GET, << >>, Ptr("csv.Reader", Zero("csv.Reader")),
                          NoHeaders, "60s", "60s", "csv", env)
    IN  R(a.AuthToken, <<mk.out>>, mk.err, <<mk>>, NoLocals)

QueryWorkbooks(a, siteID, values, env) ==
    LET params0 == Encode(values)
        params == IF Len(params0) # 0 THEN <<"?">> \o params0 ELSE params0
        url == <<a.Server, "/api/", a.Version, "/sites/", siteID, "/workbooks">> \o params
        mk == makeRequest(a, url, GET, << >>,
                          Ptr("QueryWorkbooksResponse", Zero("QueryWorkbooksResponse")),
                          NoHeaders, "connectTimeOut", "readWriteTimeout", "", env)
    IN  R(a.AuthToken, <<mk.out.val.List>>, mk.err, <<mk>>, NoLocals)

\* The for loops of GetProjectByName and GetProjectByID, from index i on:
\* the first project whose field equals the key, or none.
\* The scan as it would be if a later match replaced an earlier one.
RECURSIVE scanNameLast(_, _, _)
scanNameLast(projects, name, i) ==
    IF i > Len(projects) THEN << >>
    ELSE LET rest == scanNameLast(projects, name, i + 1)
         IN  IF rest # << >> THEN rest
             ELSE IF projects[i].Name = name THEN <<projects[i]>> ELSE << >>

RECURSIVE scanName(_, _, _)
scanName(projects, name, i) ==
    IF i > Len(projects) THEN << >>
    ELSE IF projects[i].Name = name THEN <<projects[i]>>
    ELSE scanName(projects, name, i + 1)

RECURSIVE scanID(_, _, _)
scanID(projects, ID, i) ==
    IF i > Len(projects) THEN << >>
    ELSE IF projects[i].ID = ID THEN <<projects[i]>>
    ELSE scanID(projects, ID, i + 1)

GetProjectByName(a, siteID, name, env) ==
    LET q == QueryProjects(a, siteID, env)
        projects == q.ret[1]
        found == scanName(projects, name, 1)
    IN  IF q.err # NoErr THEN R(a.AuthToken, <<ZeroProject>>, q.err, q.mks, NoLocals)
        ELSE IF found # << >> THEN R(a.AuthToken, <<found[1]>>, NoErr, q.mks, NoLocals)
        ELSE R(a.AuthToken, <<ZeroProject>>,
               Err("fmt.Errorf", <<"Project Named '", name, "' Not Found">>), q.mks, NoLocals)

GetProjectByID(a, siteID, ID, env) ==
    LET q == QueryProjects(a, siteID, env)
        projects == q.ret[1]
        found == scanID(projects, ID, 1)
    IN  IF q.err # NoErr THEN R(a.AuthToken, <<ZeroProject>>, q.err, q.mks, NoLocals)
        ELSE IF found # << >> THEN R(a.AuthToken, <<found[1]>>, NoErr, q.mks, NoLocals)
        ELSE R(a.AuthToken, <<ZeroProject>>,
               Err("fmt.Errorf", <<"Project with ID '", ID, "' Not Found">>), q.mks, NoLocals)

QueryDatasources(a, siteID, env) ==
    LET url == <<a.Server, "/api/", a.Version, "/sites/", siteID, "/datasources">>
        mk == makeRequest(a, url, GET, << >>,
                          Ptr("QueryDatasourcesResponse", Zero("QueryDatasourcesResponse")),
                          NoHeaders, "connectTimeOut", "readWriteTimeout", "", env)
    IN  R(a.AuthToken, <<mk.out.val.List>>, mk.err, <<mk>>, NoLocals)

\* GetSiteID as it would be if it asked again after a failed query.
GetSiteIDRetrying(a, siteName, env) ==
    LET q == QuerySiteByName(a, siteName, FALSE, env)
        site == q.ret[1]
    IN  IF q.err # NoErr THEN R(a.AuthToken, <<"">>, q.err, q.mks \o q.mks, NoLocals)
        ELSE R(a.AuthToken, <<site.ID>>, q.err, q.mks, NoLocals)

GetSiteID(a, siteName, env) ==
    LET q == QuerySiteByName(a, siteName, FALSE, env)
        site == q.ret[1]
    IN  IF q.err # NoErr THEN R(a.AuthToken, <<"">>, q.err, q.mks, NoLocals)
        ELSE R(a.AuthToken, <<site.ID>>, q.err, q.mks, NoLocals)

CreateProject(a, siteID, project, xmlFails, env) ==
    LET url == <<a.Server, "/api/", a.Version, "/sites/", siteID, "/projects">>
        createProjectRequest == [Request |-> project]
        x == XML(createProjectRequest, xmlFails)
    IN  IF x.err # NoErr
        THEN R(a.AuthToken, <<NilPtr("Project")>>, x.err, << >>, NoLocals)
        ELSE LET mk == makeRequest(a, url, POST, x.bytes,
                                   Ptr("CreateProjectResponse", Zero("CreateProjectResponse")),
                                   ContentTypeXML, "connectTimeOut", "readWriteTimeout", "", env)
             IN  R(a.AuthToken, <<Ptr("Project", mk.out.val.Project)>>, mk.err, <<mk>>, NoLocals)

publishDatasource(a, siteID, tdsMetadata, datasource, datasourceType, overwrite, xmlFails, env) ==
    LET retval == NilPtr("Datasource")
        url == <<a.Server, "/api/", a.Version, "/sites/", siteID, "/datasources?datasourceType=",
                 datasourceType, "&overwrite=", BoolStr(overwrite)>>
        head == <<"--", a.Boundary, "\r\n",
                  "Content-Disposition: name=\"request_payload\"\r\n",
                  "Content-Type: text/xml\r\n", "\r\n">>
        tdsRequest == [Request |-> tdsMetadata]
        x == XML(tdsRequest, xmlFails)
    IN  IF x.err # NoErr
        THEN R(a.AuthToken, <<retval>>, x.err, << >>, NoLocals)
        ELSE LET payload ==
                    head \o x.bytes
                        \o <<"\r\n--", a.Boundary, "\r\n">>
                        \o <<"Content-Disposition: name=\"tableau_datasource\"; filename=\"",
                             tdsMetadata.Name, ".tds\"\r\n">>
                        \o <<"Content-Type: application/octet-stream\r\n", "\r\n">>
                        \o <<datasource>>
                        \o <<"\r\n--", a.Boundary, "--\r\n">>
                 headers == [h \in {content_type_header} |->
                                <<"multipart/mixed; boundary=", a.Boundary>>]
                 mk == makeRequest(a, url, POST, payload, retval, headers,
                                   "connectTimeOut", "readWriteTimeout", "", env)
             IN  R(a.AuthToken, <<retval>>, mk.err, <<mk>>, NoLocals)

PublishTDS(a, siteID, tdsMetadata, fullTds, overwrite, xmlFails, env) ==
    publishDatasource(a, siteID, tdsMetadata, fullTds, "tds", overwrite, xmlFails, env)

delete(a, url, env) ==
    LET mk == makeRequest(a, url, DELETE, << >>, NilResult, NoHeaders,
                          "connectTimeOut", "readWriteTimeout", "", env)
    IN  R(a.AuthToken, << >>, mk.err, <<mk>>, NoLocals)

DeleteDatasource(a, siteID, datasourceID, env) ==
    delete(a, <<a.Server, "/api/", a.Version, "/sites/", siteID, "/datasources/", datasourceID>>, env)

DeleteProject(a, siteID, projectID, env) ==
    delete(a, <<a.Server, "/api/", a.Version, "/sites/", siteID, "/projects/", projectID>>, env)

DeleteSite(a, siteID, env) ==
    delete(a, <<a.Server, "/api/", a.Version, "/sites/", siteID>>, env)

deleteSiteByKey(a, key, value, env) ==
    delete(a, <<a.Server, "/api/", a.Version, "/sites/", value, "?key=", key>>, env)

DeleteSiteByName(a, name, env) == deleteSiteByKey(a, "name", name, env)

DeleteSiteByContentURL(a, contentURL, env) == deleteSiteByKey(a, "contentUrl", contentURL, env)

\* ------------------------------------------------------ state machine
\* No network outcome: the operation gave up before client.Do.
Idle == Outcome("none", "none", 0, EmptyBody)

RECURSIVE Requests(_)
Requests(mks) == IF mks = << >> THEN << >> ELSE Head(mks).reqs \o Requests(Tail(mks))

\* The token the server handed out in a sign-in response body.
TokenIn(body) ==
    IF body.k = "result" /\ body.schema = "AuthResponse" THEN body.val.Credentials.Token ELSE ""

\* The caller runs one operation on its session value: the session keeps
\* the token the operation leaves, call records what the operation did.
\* granted follows the tokens the server handed out to sign-ins that
\* returned success; grantedBefore is its value when the operation began.
Step(op, args, env, r) ==
    /\ api' = [api EXCEPT !.AuthToken = r.token]
    /\ call' = [op |-> op, args |-> args,
                env |-> IF Requests(r.mks) = << >> THEN Idle ELSE env,
                tokenBefore |-> api.AuthToken,
                mks |-> r.mks, ret |-> r.ret, err |-> r.err, locals |-> r.locals]
    /\ grantedBefore' = granted
    /\ granted' = IF op = "Signin" /\ r.err = NoErr THEN TokenIn(env.body) ELSE granted

Init ==
    /\ api \in [Server : {"https://srv"}, Version : {"2.0"}, DefaultSiteName : DefaultNames,
                OmitDefaultSiteName : BOOLEAN, AuthToken : {""}, Boundary : {"B1"}]
    /\ call = [op |-> "none", args |-> NoLocals, env |-> Idle, tokenBefore |-> "",
               mks |-> << >>, ret |-> << >>, err |-> NoErr, locals |-> NoLocals]
    /\ granted = ""
    /\ grantedBefore = ""

QueryValues == {<< >>, <<[k |-> "pageSize", v |-> "1"]>>}

DoSignin ==
    \E contentURL \in SiteNames, imp \in {"", "u9"}, xmlFails \in BOOLEAN,
       env \in Envs("AuthResponse") :
        Step("Signin", [contentURL |-> contentURL, userIDToImpersonate |-> imp],
             env, Signin(api, "u", "pw", contentURL, imp, xmlFails, env))

DoSignout ==
    \E env \in Envs("none") : Step("Signout", NoLocals, env, Signout(api, env))

DoServerInfo ==
    \E env \in Envs("ServerInfoResponse") : Step("ServerInfo", NoLocals, env, ServerInfo(api, env))

DoQuerySites ==
    \E env \in Envs("QuerySitesResponse") : Step("QuerySites", NoLocals, env, QuerySites(api, env))

DoQuerySite ==
    \E siteID \in IDs, includeStorage \in BOOLEAN, env \in Envs("QuerySiteResponse") :
        Step("QuerySite", [siteID |-> siteID, includeStorage |-> includeStorage],
             env, QuerySite(api, siteID, includeStorage, env))

DoQuerySiteByName ==
    \E name \in IDs, includeStorage \in BOOLEAN, env \in Envs("QuerySiteResponse") :
        Step("QuerySiteByName", [name |-> name, includeStorage |-> includeStorage],
             env, QuerySiteByName(api, name, includeStorage, env))

DoQuerySiteByContentURL ==
    \E contentURL \in IDs, includeStorage \in BOOLEAN, env \in Envs("QuerySiteResponse") :
        Step("QuerySiteByContentURL", [contentURL |-> contentURL, includeStorage |-> includeStorage],
             env, QuerySiteByContentURL(api, contentURL, includeStorage, env))

DoQueryUserOnSite ==
    \E siteID \in IDs, env \in Envs("QueryUserOnSiteResponse") :
        Step("QueryUserOnSite", [siteID |-> siteID, userID |-> "u1"],
             env, QueryUserOnSite(api, siteID, "u1", env))

DoQueryProjects ==
    \E siteID \in IDs, env \in Envs("QueryProjectsResponse") :
        Step("QueryProjects", [siteID |-> siteID], env, QueryProjects(api, siteID, env))

DoQueryViews ==
    \E siteID \in IDs, env \in Envs("QueryViewsResponse") :
        Step("QueryViews", [siteID |-> siteID], env, QueryViews(api, siteID, env))

DoQueryWorkbookViews ==
    \E siteID \in IDs, values \in QueryValues, env \in Envs("QueryViewsResponse") :
        Step("QueryWorkbookViews", [siteID |-> siteID, workbookID |-> "w1", values |-> values],
             env, QueryWorkbookViews(api, siteID, "w1", values, env))

DoQueryViewData ==
    \E siteID \in IDs, env \in Envs("QueryViewsResponse") :
        Step("QueryViewData", [siteID |-> siteID, viewID |-> "v1"],
             env, QueryViewData(api, siteID, "v1", env))

DoQueryWorkbooks ==
    \E siteID \in IDs, values \in QueryValues, env \in Envs("QueryWorkbooksResponse") :
        Step("QueryWorkbooks", [siteID |-> siteID, values |-> values],
             env, QueryWorkbooks(api, siteID, values, env))

DoGetProjectByName ==
    \E siteID \in IDs, name \in ProjectNames, env \in Envs("QueryProjectsResponse") :
        Step("GetProjectByName", [siteID |-> siteID, name |-> name],
             env, GetProjectByName(api, siteID, name, env))

DoGetProjectByID ==
    \E siteID \in IDs, ID \in ProjectIDs, env \in Envs("QueryProjectsResponse") :
        Step("GetProjectByID", [siteID |-> siteID, ID |-> ID],
             env, GetProjectByID(api, siteID, ID, env))

DoQueryDatasources ==
    \E siteID \in IDs, env \in Envs("QueryDatasourcesResponse") :
        Step("QueryDatasources", [siteID |-> siteID], env, QueryDatasources(api, siteID, env))

DoGetSiteID ==
    \E siteName \in IDs, env \in Envs("QuerySiteResponse") :
        Step("GetSiteID", [siteName |-> siteName], env, GetSiteID(api, siteName, env))

DoCreateProject ==
    \E siteID \in IDs, project \in {Project("", "Finance")}, xmlFails \in BOOLEAN,
       env \in Envs("CreateProjectResponse") :
        Step("CreateProject", [siteID |-> siteID, project |-> project],
             env, CreateProject(api, siteID, project, xmlFails, env))

DoPublishTDS ==
    \E siteID \in IDs, overwrite \in BOOLEAN, xmlFails \in BOOLEAN, env \in Envs("Datasource") :
        Step("PublishTDS", [siteID |-> siteID, overwrite |-> overwrite],
             env, PublishTDS(api, siteID, [ID |-> "", Name |-> "Sales"], "<rows/>",
                             overwrite, xmlFails, env))

DoDeleteDatasource ==
    \E siteID \in IDs, env \in Envs("none") :
        Step("DeleteDatasource", [siteID |-> siteID, datasourceID |-> "d1"],
             env, DeleteDatasource(api, siteID, "d1", env))

DoDeleteProject ==
    \E siteID \in IDs, env \in Envs("none") :
        Step("DeleteProject", [siteID |-> siteID, projectID |-> "p1"],
             env, DeleteProject(api, siteID, "p1", env))

DoDeleteSite ==
    \E siteID \in TrimIDs, env \in Envs("none") :
        Step("DeleteSite", [siteID |-> siteID], env, DeleteSite(api, siteID, env))

DoDeleteSiteByName ==
    \E name \in IDs, env \in Envs("none") :
        Step("DeleteSiteByName", [name |-> name], env, DeleteSiteByName(api, name, env))

DoDeleteSiteByContentURL ==
    \E contentURL \in IDs, env \in Envs("none") :
        Step("DeleteSiteByContentURL", [contentURL |-> contentURL],
             env, DeleteSiteByContentURL(api, contentURL, env))

Next ==
    \/ DoSignin
    \/ DoSignout
    \/ DoServerInfo
    \/ DoQuerySites
    \/ DoQuerySite
    \/ DoQuerySiteByName
    \/ DoQuerySiteByContentURL
    \/ DoQueryUserOnSite
    \/ DoQueryProjects
    \/ DoQueryViews
    \/ DoQueryWorkbookViews
    \/ DoQueryViewData
    \/ DoQueryWorkbooks
    \/ DoGetProjectByName
    \/ DoGetProjectByID
    \/ DoQueryDatasources
    \/ DoGetSiteID
    \/ DoCreateProject
    \/ DoPublishTDS
    \/ DoDeleteDatasource
    \/ DoDeleteProject
    \/ DoDeleteSite
    \/ DoDeleteSiteByName
    \/ DoDeleteSiteByContentURL

Spec == Init /\ [][Next]_vars

\* ---------------------------------------------------------- properties
Reqs == Requests(call.mks)

Dispatched == Reqs # << >>

\* A response arrived and its body was read.
BodyRead == call.env.transport = "ok" /\ call.env.readBody = "ok"

\* The auth header a request must carry for session token t.
CarriesToken(req, t) ==
    IF t # ""
    THEN auth_header \in DOMAIN req.header /\ req.header[auth_header] = <<t>>
    ELSE auth_header \notin DOMAIN req.header

\* No makeRequest call of the operation parsed an error document, reached
\* the decode step or changed its decode target.
NothingDecoded ==
    \A i \in DOMAIN call.mks :
        /\ ~call.mks[i].errorParsed
        /\ ~call.mks[i].decodeReached
        /\ call.mks[i].out = call.mks[i].target

\* C1: every request an operation dispatches carries, in X-Tableau-Auth,
\* exactly the token of the latest Signin that returned success before it,
\* and no auth header when that token (the session's token) is empty.
C1_AuthHeaderIsGrantedToken ==
    \A i \in DOMAIN Reqs :
        /\ CarriesToken(Reqs[i], grantedBefore)
        /\ CarriesToken(Reqs[i], call.tokenBefore)

C1_Witness ==
    /\ call.op = "QueryProjects"
    /\ grantedBefore = "t1"
    /\ Dispatched
    /\ Reqs[1].header[auth_header] = <<"t1">>

\* C2: a response of status 404 whose body was read makes the operation
\* fail with ErrDoesNotExist, whatever the operation and the body: nothing
\* is parsed as an error document, nothing is decoded, no target changes.
C2_NotFoundIsSentinel ==
    (BodyRead /\ call.env.status = 404) =>
        /\ call.err = ErrDoesNotExist
        /\ NothingDecoded

C2_Witness ==
    /\ call.op = "CreateProject"
    /\ BodyRead
    /\ call.env.status = 404
    /\ call.env.body.k = "result"
    /\ call.err = ErrDoesNotExist

\* The error a body gives when it is read as the server's error document.
ParsedAsError(body, err) ==
    IF body.k = "result"
    THEN err = Err("TError", <<IF body.schema = "ErrorResponse"
                                THEN body.val.Error.Code ELSE "">>)
    ELSE err.kind \in {"EOF", "xml.SyntaxError"}

\* C3: a response of status >= 300 other than 404 never gives success and
\* never decodes into the target: the operation fails with the decoded
\* server error when the body parses as an error document and with the
\* parse error when it does not, with or without a target, XML or CSV.
C3_ErrorStatusFails ==
    (BodyRead /\ call.env.status >= 300 /\ call.env.status # 404) =>
        /\ call.err # NoErr
        /\ ParsedAsError(call.env.body, call.err)
        /\ \A i \in DOMAIN call.mks :
              ~call.mks[i].decodeReached /\ call.mks[i].out = call.mks[i].target

C3_Witness ==
    /\ call.op = "QueryViewData"
    /\ BodyRead
    /\ call.env.status = 300
    /\ call.env.body.schema = "ErrorResponse"
    /\ call.err = Err("TError", <<"401001">>)

\* The site selector of the credentials Signin built.
Selector == call.locals.credentials.Site[1].ContentUrl

\* The site selector inside the payload of the sign-in request.
SentSelector == Reqs[1].body[2].Request.Site[1].ContentUrl

\* C4 as claimed: the selector is empty exactly when the flag is set and
\* the identifier equals the default site name.
C4_EmptyExactlyWhenDefault ==
    call.op = "Signin" =>
        (Selector = "" <=>
            (api.OmitDefaultSiteName /\ call.args.contentURL = api.DefaultSiteName))

\* C4: the selector is empty when the flag is set and the identifier
\* equals the default site name, and the identifier unchanged in every
\* other case (so it is empty as well when the identifier is empty); the
\* dispatched payload carries that selector.
C4_SelectorIsDefaultOrGiven ==
    call.op = "Signin" =>
        /\ Selector = IF api.OmitDefaultSiteName /\ call.args.contentURL = api.DefaultSiteName
                      THEN "" ELSE call.args.contentURL
        /\ Dispatched => SentSelector = Selector

C4_Witness ==
    /\ call.op = "Signin"
    /\ api.OmitDefaultSiteName
    /\ call.args.contentURL = "Default"
    /\ Dispatched
    /\ SentSelector = ""

\* C5: Signout leaves the session token as it was, whether it succeeds or
\* fails, and the requests of the operation that follows a Signout carry
\* the token the session held before the Signout.
C5_SignoutKeepsToken ==
    [][/\ call'.op = "Signout" => api'.AuthToken = api.AuthToken
       /\ call.op = "Signout" =>
            \A i \in DOMAIN Requests(call'.mks) :
                CarriesToken(Requests(call'.mks)[i], call.tokenBefore)]_vars

C5_Witness ==
    /\ call.op = "Signout"
    /\ call.err = NoErr
    /\ call.tokenBefore = "t1"
    /\ api.AuthToken = "t1"

\* The project list the server returned: the list in a well-formed body;
\* a well-formed body of another schema holds no project.
ServerProjects ==
    IF call.env.body.schema = "QueryProjectsResponse"
    THEN call.env.body.val.Projects.Projects ELSE << >>

QuerySucceeded == BodyRead /\ call.env.status < 300 /\ call.env.body.k = "result"

FirstWith(projects, P(_)) ==
    LET idx == {i \in DOMAIN projects : P(projects[i])}
    IN  IF idx = {} THEN << >>
        ELSE <<projects[CHOOSE i \in idx : \A j \in idx : i <= j]>>

Mentions(err, word) == \E i \in DOMAIN err.detail : err.detail[i] = word

LookupIs(key, P(_)) ==
    IF QuerySucceeded
    THEN LET first == FirstWith(ServerProjects, P)
         IN  IF first # << >>
             THEN call.err = NoErr /\ call.ret = first
             ELSE /\ call.ret = <<ZeroProject>>
                  /\ call.err.kind = "fmt.Errorf"
                  /\ Mentions(call.err, key)
    ELSE /\ call.err # NoErr
         /\ call.err = call.mks[1].err
         /\ call.ret = <<ZeroProject>>

\* C6: GetProjectByName returns the first project of the server's list
\* whose Name is the given name, and otherwise an empty project with a
\* not-found error that mentions the name; GetProjectByID does the same on
\* ID; a failed project query is returned as it is, with an empty project.
C6_ProjectLookup ==
    /\ call.op = "GetProjectByName" =>
          LET ByName(p) == p.Name = call.args.name IN LookupIs(call.args.name, ByName)
    /\ call.op = "GetProjectByID" =>
          LET ByID(p) == p.ID = call.args.ID IN LookupIs(call.args.ID, ByID)

C6_Witness ==
    /\ call.op = "GetProjectByName"
    /\ call.args.name = "Finance"
    /\ QuerySucceeded
    /\ ServerProjects = <<Project("p1", "Finance"), Project("p2", "Finance")>>
    /\ call.ret = <<Project("p1", "Finance")>>

\* The response schema of an operation that creates an entity.
EntitySchema == IF call.op = "PublishTDS" THEN "Datasource" ELSE "CreateProjectResponse"

EntityIn(body) == IF call.op = "PublishTDS" THEN body.val ELSE body.val.Project

\* C7: PublishTDS and CreateProject, answered with a 2xx status and a body
\* of the response schema, return a nil error and a non-nil entity whose
\* fields are those of the body.
C7_MutationReturnsEntity ==
    (/\ call.op \in {"PublishTDS", "CreateProject"}
     /\ BodyRead
     /\ call.env.status < 300
     /\ call.env.body.k = "result"
     /\ call.env.body.schema = EntitySchema) =>
        /\ call.err = NoErr
        /\ ~call.ret[1].isnil
        /\ call.ret[1].val = EntityIn(call.env.body)

TimedOut ==
    \/ call.env.transport \in {"connectTimeout", "rwTimeout"}
    \/ call.env.transport = "ok" /\ call.env.readBody = "rwTimeout"

\* C8: a request whose connect or read/write phase times out fails with the
\* transport's timeout error: the status checks and the decode step are not
\* reached, the target stays as it was and the request is sent only once.
C8_TimeoutIsTerminal ==
    (Dispatched /\ TimedOut) =>
        /\ call.err = IF call.env.transport = "ok"
                      THEN Err("readBody", <<call.env.readBody>>)
                      ELSE Err("transport", <<call.env.transport>>)
        /\ Len(Reqs) = 1
        /\ NothingDecoded
        /\ \A i \in DOMAIN call.mks : ~call.mks[i].statusChecked

C8_Witness ==
    /\ call.op = "QueryProjects"
    /\ Dispatched
    /\ call.env.transport = "ok"
    /\ call.env.readBody = "rwTimeout"
    /\ call.err = Err("readBody", <<"rwTimeout">>)

\* C9 as claimed: every operation performs exactly one round trip.
C9_ExactlyOneRoundTrip == call.op # "none" => Len(Reqs) = 1

\* The operation failed before it had a request to send.
FailedLocally == call.err.kind \in {"xml.Marshal", "url.Error"}

\* C9: every operation performs at most one round trip: none when building
\* the payload or the request fails, exactly one otherwise; the error of
\* the round trip is the error of the operation, with no second request.
C9_AtMostOneRoundTrip ==
    call.op # "none" =>
        /\ Len(Reqs) = IF FailedLocally THEN 0 ELSE 1
        /\ Len(call.mks) <= 1
        /\ \A i \in DOMAIN call.mks : call.mks[i].err # NoErr => call.err = call.mks[i].err

C9_Witness ==
    /\ call.op = "GetSiteID"
    /\ call.err = Err("transport", <<"refused">>)
    /\ Len(Reqs) = 1

\* C10: a Signin that fails leaves the session token as it was, and the
\* token differs from what it was before an operation only when that
\* operation is a Signin that returned success.
C10_FailedSigninKeepsToken ==
    /\ (call.op = "Signin" /\ call.err # NoErr) => api.AuthToken = call.tokenBefore
    /\ api.AuthToken # call.tokenBefore => (call.op = "Signin" /\ call.err = NoErr)

C10_Witness ==
    /\ call.op = "Signin"
    /\ call.tokenBefore = "t1"
    /\ BodyRead
    /\ call.env.status = 200
    /\ call.env.body.k = "truncated"
    /\ call.err # NoErr
    /\ api.AuthToken = "t1"

====
